---------------------------- MODULE Spec2Model ----------------------------
(***************************************************************************)
(* Lowering rules of numba/hsa/hsaimpl.py.                                 *)
(*                                                                         *)
(* The state is what the file's code reads and writes while the host       *)
(* compiler uses it: the Registry filled when the module is imported, the  *)
(* LLVM module of the kernel being compiled (declared functions, global    *)
(* variables), the instructions the builder has emitted into the current   *)
(* block, and the outcome of the most recent call into the file.           *)
(***************************************************************************)
EXTENDS Integers, Sequences, FiniteSets, TLC

VARIABLES
    loaded,      \* number of top-level def statements of the file executed
    registry,    \* Registry.functions: the registered function objects
    namespace,   \* module globals: function name -> index of the def bound
    functions,   \* LLVM module: declared functions
    globals,     \* LLVM module: global variables, in order of creation
    block,       \* instructions emitted through the builder, in order
    status,      \* "idle" | "lowering" | "aborted" (an exception escaped)
    ncalls,      \* calls lowered into the current kernel
    last         \* the most recent call: op, inputs, outcome, return value

vars == <<loaded, registry, namespace, functions, globals, block, status,
          ncalls, last>>

-----------------------------------------------------------------------------
(* Bounds of the model *)

MaxNdim == 2        \* longest shape / index tuple / array rank
MaxDimArg == 1      \* distinct LLVM values used as dim / flags argument
MaxCalls == 1       \* calls lowered into one kernel before it is finished

-----------------------------------------------------------------------------
(* The host's types (numba.types) *)

integer_domain == {"int32", "intp", "uint32", "uintp"}
real_domain == {"float32", "float64"}
complex_domain == {"complex64"}
\* types.number_domain: integer, real and complex types; boolean is not in it
number_domain == integer_domain \cup real_domain \cup complex_domain

\* dtypes the bounded inputs draw from
Dtypes == {"int32", "float64", "boolean"}

\* context.get_value_type / context.get_data_type: numba type -> LLVM type
get_value_type(t) ==
    CASE t = "int32" -> "i32"
      [] t = "uint32" -> "i32"
      [] t = "intp" -> "i64"
      [] t = "uintp" -> "i64"
      [] t = "float32" -> "float"
      [] t = "float64" -> "double"
      [] t = "complex64" -> "{float, float}"
      [] t = "boolean" -> "i1"
      [] t = "void" -> "void"

\* the in-memory representation; it differs for boolean only
get_data_type(t) == IF t = "boolean" THEN "i8" ELSE get_value_type(t)

\* lldtype.get_abi_size(targetdata)
get_abi_size(llty) ==
    CASE llty = "i8" -> 1
      [] llty = "i32" -> 4
      [] llty = "i64" -> 8
      [] llty = "float" -> 4
      [] llty = "double" -> 8
      [] llty = "{float, float}" -> 8

\* target.py
SPIR_GLOBAL_ADDRSPACE == 1
SPIR_LOCAL_ADDRSPACE == 3
SPIR_GENERIC_ADDRSPACE == 4
CC_SPIR_FUNC == 75
LINKAGE_INTERNAL == "internal"

Addrspaces == {SPIR_GLOBAL_ADDRSPACE, SPIR_LOCAL_ADDRSPACE, SPIR_GENERIC_ADDRSPACE}

-----------------------------------------------------------------------------
(* itanium_mangler *)

\* C2CODE
mangle_type_c(cty) ==
    CASE cty = "unsigned int" -> "j"
      [] cty = "int" -> "i"
      [] cty = "float" -> "f"
      [] cty = "double" -> "d"

\* N2CODE
mangle_type(ty) ==
    CASE ty = "int32" -> "i"
      [] ty = "uint32" -> "j"
      [] ty = "intp" -> "x"
      [] ty = "uintp" -> "y"
      [] ty = "float32" -> "f"
      [] ty = "float64" -> "d"
      [] ty = "boolean" -> "b"
      [] ty = "complex64" -> "9complex64"

RECURSIVE mangle_args_c(_)
mangle_args_c(cargs) ==
    IF cargs = <<>> THEN ""
    ELSE mangle_type_c(Head(cargs)) \o mangle_args_c(Tail(cargs))

mangle_identifier(ident) == ToString(Len(ident)) \o ident

mangle_c(name, cargs) == "_Z" \o mangle_identifier(name) \o mangle_args_c(cargs)

\* _atomic_mangle(op, ty, addrspace)
_atomic_mangle(op, ty, addrspace) ==
    LET tyletter == mangle_type(ty)
        as_str == "AS" \o ToString(addrspace)
        tyaddrstr == "U" \o ToString(Len(as_str)) \o as_str
    IN  "_Z" \o ToString(7 + Len(op)) \o "atomic_" \o op \o "PV" \o tyaddrstr
             \o tyletter \o tyletter


-----------------------------------------------------------------------------
(* LLVM module and builder (llvmlite), as far as the file uses them *)

\* the state a lowering function works on
State(fs, gs, blk) == [functions |-> fs, globals |-> gs, block |-> blk]

Emit(st, ins) == [st EXCEPT !.block = Append(@, ins)]

\* LLVM values
Arg(i) == [op |-> "arg", id |-> i]
NoValue == [op |-> "none"]

\* Type.function(llretty, llargs)
FunctionType(llretty, llargs) == <<llretty, llargs>>

\* the pointer type of a pointer value, printed
PointerType(pointee, addrspace) ==
    pointee \o " addrspace(" \o ToString(addrspace) \o ")*"

\* Type.array(lldtype, elemcount)
ArrayType(lldtype, elemcount) ==
    "[" \o ToString(elemcount) \o " x " \o lldtype \o "]"

\* mod.get_or_insert_function(fnty, name), then fn.calling_convention = cc:
\* an existing function of that name is returned (and its calling convention
\* set), otherwise one is inserted
get_or_insert_function(st, fnty, name, cc) ==
    LET old == {f \in st.functions : f.name = name}
        fn == IF old = {} THEN [name |-> name, fnty |-> fnty, cc |-> cc]
              ELSE [(CHOOSE f \in old : TRUE) EXCEPT !.cc = cc]
    IN  [st |-> [st EXCEPT !.functions = (@ \ old) \cup {fn}], fn |-> fn]

\* builder.call(fn, args)
builder_call(st, fn, args) ==
    LET v == [op |-> "call", callee |-> fn.name, cc |-> fn.cc, args |-> args]
    IN  [st |-> Emit(st, v), val |-> v]

\* context.cast(builder, val, fromty, toty): the value converted; an
\* instruction is emitted only when the LLVM types differ
context_cast(st, val, fromty, toty) ==
    IF fromty = toty THEN [st |-> st, val |-> val]
    ELSE LET v == [op |-> "cast", val |-> val, from |-> fromty, to |-> toty]
         IN  [st |-> IF get_value_type(fromty) = get_value_type(toty)
                     THEN st ELSE Emit(st, v),
              val |-> v]

\* lmod.add_global_variable(laryty, symbol_name, addrspace): the name is made
\* unique within the module
UniqueName(st, name) ==
    LET n == Cardinality({i \in 1..Len(st.globals) : st.globals[i].base = name})
    IN  IF n = 0 THEN name ELSE name \o "." \o ToString(n)

add_global_variable(st, laryty, symbol_name, addrspace) ==
    LET gv == [base |-> symbol_name, name |-> UniqueName(st, symbol_name),
               type |-> laryty, addrspace |-> addrspace,
               linkage |-> "external", initializer |-> "none"]
    IN  [st |-> [st EXCEPT !.globals = Append(@, gv)],
         index |-> Len(st.globals) + 1]

-----------------------------------------------------------------------------
(* Outcome of a call into the file *)

Return(st, v) == [st |-> st, exc |-> "none", msg |-> "", ret |-> v]
Raise(st, exc, msg) == [st |-> st, exc |-> exc, msg |-> msg, ret |-> NoValue]

-----------------------------------------------------------------------------
(* _declare_function, _declare_atomic *)

_declare_function(st, name, sig, cargs) ==
    LET llretty == get_value_type(sig.return_type)
        llargs == [i \in 1..Len(sig.args) |-> get_value_type(sig.args[i])]
        fnty == FunctionType(llretty, llargs)
        mangled == mangle_c(name, cargs)
    IN  get_or_insert_function(st, fnty, mangled, CC_SPIR_FUNC)

_declare_atomic(st, op, llptrty, ty) ==
    LET llty == llptrty.pointee
        llretty == llty
        llargs == <<PointerType(llptrty.pointee, llptrty.addrspace), llty>>
        fnty == FunctionType(llretty, llargs)
        sym == _atomic_mangle(op, ty, llptrty.addrspace)
    IN  get_or_insert_function(st, fnty, sym, CC_SPIR_FUNC)

-----------------------------------------------------------------------------
(* The work-item intrinsics and barrier *)

get_global_id_impl(st, sig, args) ==
    LET dim == args[1]
        get_global_id == _declare_function(st, "get_global_id", sig,
                                           <<"unsigned int">>)
        res == builder_call(get_global_id.st, get_global_id.fn, <<dim>>)
        c == context_cast(res.st, res.val, "uintp", "intp")
    IN  Return(c.st, c.val)

get_local_id_impl(st, sig, args) ==
    LET dim == args[1]
        get_local_id == _declare_function(st, "get_local_id", sig,
                                          <<"unsigned int">>)
        res == builder_call(get_local_id.st, get_local_id.fn, <<dim>>)
        c == context_cast(res.st, res.val, "uintp", "intp")
    IN  Return(c.st, c.val)

\* mutant: the body copied from get_global_id_impl with the name left as is
get_group_id_impl_copied_name(st, sig, args) ==
    LET dim == args[1]
        get_group_id == _declare_function(st, "get_global_id", sig,
                                          <<"unsigned int">>)
        res == builder_call(get_group_id.st, get_group_id.fn, <<dim>>)
        c == context_cast(res.st, res.val, "uintp", "intp")
    IN  Return(c.st, c.val)

get_group_id_impl(st, sig, args) ==
    LET dim == args[1]
        get_group_id == _declare_function(st, "get_group_id", sig,
                                          <<"unsigned int">>)
        res == builder_call(get_group_id.st, get_group_id.fn, <<dim>>)
        c == context_cast(res.st, res.val, "uintp", "intp")
    IN  Return(c.st, c.val)

get_global_size_impl(st, sig, args) ==
    LET dim == args[1]
        get_global_size == _declare_function(st, "get_global_size", sig,
                                             <<"unsigned int">>)
        res == builder_call(get_global_size.st, get_global_size.fn, <<dim>>)
        c == context_cast(res.st, res.val, "uintp", "intp")
    IN  Return(c.st, c.val)

get_local_size_impl(st, sig, args) ==
    LET dim == args[1]
        get_local_size == _declare_function(st, "get_local_size", sig,
                                            <<"unsigned int">>)
        res == builder_call(get_local_size.st, get_local_size.fn, <<dim>>)
        c == context_cast(res.st, res.val, "uintp", "intp")
    IN  Return(c.st, c.val)

\* the second def named get_local_size_impl (line 137): the barrier rule
get_local_size_impl_barrier(st, sig, args) ==
    LET flags == args[1]
        barrier == _declare_function(st, "barrier", sig, <<"unsigned int">>)
        res == builder_call(barrier.st, barrier.fn, <<flags>>)
    IN  Return(res.st, res.val)

-----------------------------------------------------------------------------
(* atomic.add *)

\* index types: a single intp, a UniTuple or a Tuple of integer types
IsIntp(indty) == indty.kind = "intp"

\* mutant: a single intp index is not counted as a component
IndexCount_scalar_uncounted(indty) == Len(indty.types)

\* len(indty) once line 155 has wrapped a single intp in a list
IndexCount(indty) == IF IsIntp(indty) THEN 1 ELSE Len(indty.types)

\* cgutils.unpack_tuple(builder, inds, count): one extract_value per component
RECURSIVE unpack_tuple(_, _, _, _)
unpack_tuple(st, inds, count, i) ==
    IF i > count THEN [st |-> st, vals |-> <<>>]
    ELSE LET v == [op |-> "extract_value", val |-> inds, idx |-> i - 1]
             rest == unpack_tuple(Emit(st, v), inds, count, i + 1)
         IN  [st |-> rest.st, vals |-> <<v>> \o rest.vals]

\* [context.cast(builder, i, t, types.intp) for t, i in zip(indty, indices)]
RECURSIVE cast_indices(_, _, _, _)
cast_indices(st, tys, indices, i) ==
    IF i > Len(indices) THEN [st |-> st, vals |-> <<>>]
    ELSE LET c == context_cast(st, indices[i], tys[i], "intp")
             rest == cast_indices(c.st, tys, indices, i + 1)
         IN  [st |-> rest.st, vals |-> <<c.val>> \o rest.vals]

\* context.make_array(aryty)(context, builder, ary): the array struct proxy
make_array_proxy(st, aryty, ary) ==
    LET v == [op |-> "alloca_array", dtype |-> aryty.dtype, ndim |-> aryty.ndim,
              val |-> ary]
    IN  [st |-> Emit(st, v), val |-> v]

\* cgutils.get_item_pointer(builder, aryty, lary, indices)
get_item_pointer(st, aryty, lary, indices) ==
    LET v == [op |-> "get_item_pointer", val |-> lary, indices |-> indices,
              pointee |-> get_data_type(aryty.dtype),
              addrspace |-> SPIR_GENERIC_ADDRSPACE]
    IN  [st |-> Emit(st, v), val |-> v]

\* mutant: the dimensionality check made before the dtype check
hsail_atomic_add_tuple_ndim_first(st, sig, args) ==
    LET aryty == sig.args[1]
        indty == sig.args[2]
        valty == sig.args[3]
        ary == args[1]
        inds == args[2]
        val == args[3]
        dtype == aryty.dtype
        un == IF IsIntp(indty) THEN [st |-> st, vals |-> <<inds>>]
              ELSE LET u == unpack_tuple(st, inds, Len(indty.types), 1)
                   IN  cast_indices(u.st, indty.types, u.vals, 1)
        indices == un.vals
        lary == make_array_proxy(un.st, aryty, ary)
        ptr == get_item_pointer(lary.st, aryty, lary.val, indices)
        atomic_add == _declare_atomic(ptr.st, "add", ptr.val, valty)
        res == builder_call(atomic_add.st, atomic_add.fn, <<ptr.val, val>>)
    IN  IF aryty.ndim # IndexCount(indty)
        THEN Raise(un.st, "TypeError", "indexing n-D array with m-D index")
        ELSE IF dtype # valty
        THEN Raise(un.st, "TypeError", "expecting dtype but got valty")
        ELSE Return(res.st, res.val)

hsail_atomic_add_tuple(st, sig, args) ==
    LET aryty == sig.args[1]
        indty == sig.args[2]
        valty == sig.args[3]
        ary == args[1]
        inds == args[2]
        val == args[3]
        dtype == aryty.dtype
        un == IF IsIntp(indty) THEN [st |-> st, vals |-> <<inds>>]
              ELSE LET u == unpack_tuple(st, inds, Len(indty.types), 1)
                   IN  cast_indices(u.st, indty.types, u.vals, 1)
        indices == un.vals
        lary == make_array_proxy(un.st, aryty, ary)
        ptr == get_item_pointer(lary.st, aryty, lary.val, indices)
        atomic_add == _declare_atomic(ptr.st, "add", ptr.val, valty)
        res == builder_call(atomic_add.st, atomic_add.fn, <<ptr.val, val>>)
    IN  IF dtype # valty
        THEN Raise(un.st, "TypeError", "expecting dtype but got valty")
        ELSE IF aryty.ndim # IndexCount(indty)
        THEN Raise(un.st, "TypeError", "indexing n-D array with m-D index")
        ELSE Return(res.st, res.val)

-----------------------------------------------------------------------------
(* shared-memory arrays *)

Reverse(s) == [i \in 1..Len(s) |-> s[Len(s) + 1 - i]]

\* reduce(operator.mul, shape), shape not empty
RECURSIVE reduce_mul(_)
reduce_mul(shape) ==
    IF Len(shape) = 1 THEN shape[1]
    ELSE reduce_mul(SubSeq(shape, 1, Len(shape) - 1)) * shape[Len(shape)]

\* the loop of lines 225-227 over reversed(shape[1:])
RECURSIVE rstrides_loop(_, _)
rstrides_loop(rest, rstrides) ==
    IF rest = <<>> THEN rstrides
    ELSE rstrides_loop(Tail(rest),
                       Append(rstrides, Head(rest) * rstrides[Len(rstrides)]))

\* mutant: shape[:-1], the strides built from the leading dimensions
Slice1_drop_last(shape) ==
    IF shape = <<>> THEN <<>> ELSE SubSeq(shape, 1, Len(shape) - 1)

\* shape[1:]
Slice1(shape) == IF shape = <<>> THEN <<>> ELSE Tail(shape)

_make_array(st, dataptr, dtype, shape, layout) ==
    LET ndim == Len(shape)
        aryty == [dtype |-> dtype, ndim |-> ndim, layout |-> "C"]
        ary == Emit(st, [op |-> "alloca_array", dtype |-> dtype, ndim |-> ndim,
                         val |-> NoValue])
        data == [op |-> "bitcast", val |-> dataptr,
                 to |-> PointerType(get_data_type(dtype), SPIR_GENERIC_ADDRSPACE)]
        st1 == Emit(ary, data)
        lldtype == get_data_type(dtype)
        itemsize == get_abi_size(lldtype)
        rstrides == rstrides_loop(Reverse(Slice1(shape)), <<itemsize>>)
        strides == Reverse(rstrides)
        kshape == shape
        kstrides == strides
        st2 == Emit(st1, [op |-> "pack_array", vals |-> kshape])
        st3 == Emit(st2, [op |-> "pack_array", vals |-> kstrides])
    IN  Return(st3, [op |-> "array", aryty |-> aryty, data |-> data,
                     shape |-> kshape, strides |-> kstrides])

\* mutant: only the generic address space is refused
IsLocalAddrspace_not_generic(addrspace) == addrspace # SPIR_GENERIC_ADDRSPACE

\* line 189: addrspace == target.SPIR_LOCAL_ADDRSPACE
IsLocalAddrspace(addrspace) == addrspace = SPIR_LOCAL_ADDRSPACE

\* mutant: only a negative length is refused
BadLength_negative_only(elemcount) == elemcount < 0

\* line 195: elemcount <= 0
BadLength(elemcount) == elemcount <= 0

\* mutant: boolean accepted as an element type
UnsupportedDtype_allows_boolean(dtype) ==
    dtype \notin number_domain \cup {"boolean"}

\* line 201: dtype not in types.number_domain
UnsupportedDtype(dtype) == dtype \notin number_domain

_generic_array(st, shape, dtype, symbol_name, addrspace) ==
    IF shape = <<>>
    THEN Raise(st, "TypeError", "reduce() of empty sequence with no initial value")
    ELSE
    LET elemcount == reduce_mul(shape)
        lldtype == get_data_type(dtype)
        laryty == ArrayType(lldtype, elemcount)
        gv == add_global_variable(st, laryty, symbol_name, addrspace)
        gvmem == gv.index
        st1 == [gv.st EXCEPT !.globals[gvmem].linkage = LINKAGE_INTERNAL,
                             !.globals[gvmem].initializer = "zeroinitializer"]
        dataptr == [op |-> "addrspacecast", gv |-> gv.st.globals[gvmem].name,
                    to |-> SPIR_GENERIC_ADDRSPACE]
        st2 == Emit(st1, dataptr)
    IN  IF IsLocalAddrspace(addrspace)
        THEN IF BadLength(elemcount)
             THEN Raise(gv.st, "ValueError", "array length <= 0")
             ELSE IF UnsupportedDtype(dtype)
             THEN Raise(st1, "TypeError", "unsupported type")
             ELSE _make_array(st2, dataptr, dtype, shape, "C")
        ELSE Raise(st, "NotImplementedError", "addrspace")

hsail_smem_alloc_array(st, sig, args) ==
    LET shape == args[1]
        dtype == args[2]
    IN  _generic_array(st, shape, dtype, "_hsapy_smem", SPIR_LOCAL_ADDRSPACE)

-----------------------------------------------------------------------------
(* Importing the file: the decorated def statements, in source order *)

Rule(func, argtys) == [func |-> func, args |-> argtys]

\* mutant: the barrier def is left unregistered
Defs_barrier_unregistered == <<
    [name |-> "get_global_id_impl", register |-> TRUE,
     implement |-> <<Rule("get_global_id", <<"uint32">>)>>],
    [name |-> "get_local_id_impl", register |-> TRUE,
     implement |-> <<Rule("get_local_id", <<"uint32">>)>>],
    [name |-> "get_group_id_impl", register |-> TRUE,
     implement |-> <<Rule("get_group_id", <<"uint32">>)>>],
    [name |-> "get_global_size_impl", register |-> TRUE,
     implement |-> <<Rule("get_global_size", <<"uint32">>)>>],
    [name |-> "get_local_size_impl", register |-> TRUE,
     implement |-> <<Rule("get_local_size", <<"uint32">>)>>],
    [name |-> "get_local_size_impl", register |-> FALSE,
     implement |-> <<Rule("barrier", <<"uint32">>)>>],
    [name |-> "hsail_atomic_add_tuple", register |-> TRUE,
     implement |-> <<Rule("atomic.add", <<"Array", "Tuple", "Any">>),
                     Rule("atomic.add", <<"Array", "UniTuple", "Any">>),
                     Rule("atomic.add", <<"Array", "intp", "Any">>)>>],
    [name |-> "hsail_smem_alloc_array", register |-> TRUE,
     implement |-> <<Rule("hsail.smem.alloc", <<"UniTuple", "Any">>)>>] >>

\* one entry per def statement: the name it binds and its decorators;
\* implement decorators are listed in the order they are applied (bottom up)
Defs == <<
    [name |-> "get_global_id_impl", register |-> TRUE,
     implement |-> <<Rule("get_global_id", <<"uint32">>)>>],
    [name |-> "get_local_id_impl", register |-> TRUE,
     implement |-> <<Rule("get_local_id", <<"uint32">>)>>],
    [name |-> "get_group_id_impl", register |-> TRUE,
     implement |-> <<Rule("get_group_id", <<"uint32">>)>>],
    [name |-> "get_global_size_impl", register |-> TRUE,
     implement |-> <<Rule("get_global_size", <<"uint32">>)>>],
    [name |-> "get_local_size_impl", register |-> TRUE,
     implement |-> <<Rule("get_local_size", <<"uint32">>)>>],
    [name |-> "get_local_size_impl", register |-> TRUE,
     implement |-> <<Rule("barrier", <<"uint32">>)>>],
    [name |-> "hsail_atomic_add_tuple", register |-> TRUE,
     implement |-> <<Rule("atomic.add", <<"Array", "Tuple", "Any">>),
                     Rule("atomic.add", <<"Array", "UniTuple", "Any">>),
                     Rule("atomic.add", <<"Array", "intp", "Any">>)>>],
    [name |-> "hsail_smem_alloc_array", register |-> TRUE,
     implement |-> <<Rule("hsail.smem.alloc", <<"UniTuple", "Any">>)>>] >>

\* the body of the function object the d-th def statement created
Call(d, st, sig, args) ==
    CASE d = 1 -> get_global_id_impl(st, sig, args)
      [] d = 2 -> get_local_id_impl(st, sig, args)
      [] d = 3 -> get_group_id_impl(st, sig, args)
      [] d = 4 -> get_global_size_impl(st, sig, args)
      [] d = 5 -> get_local_size_impl(st, sig, args)
      [] d = 6 -> get_local_size_impl_barrier(st, sig, args)
      [] d = 7 -> hsail_atomic_add_tuple(st, sig, args)
      [] d = 8 -> hsail_smem_alloc_array(st, sig, args)

FunctionNames == {Defs[d].name : d \in 1..Len(Defs)}

\* implement(func, *argtys)(impl): appends to impl's signatures;
\* Registry.register(impl): appends the function object to the registry
Registry_register(reg, impl) == Append(reg, impl)

\* the registered function objects that implement func for argtys
Resolve(reg, func, argtys) ==
    {i \in 1..Len(reg) :
        \E j \in 1..Len(reg[i].signatures) :
            reg[i].signatures[j] = Rule(func, argtys)}

\* all (function, argument types) pairs the registry has a rule for
RegisteredRules(reg) ==
    {reg[i].signatures[j] : <<i, j>> \in
        {p \in (1..Len(reg)) \X (1..3) : p[2] <= Len(reg[p[1]].signatures)}}

-----------------------------------------------------------------------------
(* Inputs *)

DimArgs == {Arg(i) : i \in 0..MaxDimArg}
WorkItemStubs == {"get_global_id", "get_local_id", "get_group_id",
                  "get_global_size", "get_local_size"}

Extents == {-1, 0, 2, 3}

RECURSIVE SeqsUpTo(_, _)
SeqsUpTo(S, n) ==
    IF n = 0 THEN {<<>>}
    ELSE LET shorter == SeqsUpTo(S, n - 1)
         IN  shorter \cup {Append(s, x) : s \in {t \in shorter : Len(t) = n - 1},
                                          x \in S}

Shapes == SeqsUpTo(Extents, MaxNdim)
NonEmptyShapes == {s \in Shapes : s # <<>>}

\* intp, UniTuple(intp, n), and Tuples mixing int32 and intp (or empty)
IndexTypes ==
    {[kind |-> "intp", types |-> <<>>]}
    \cup {[kind |-> "UniTuple", types |-> [i \in 1..n |-> "intp"]] :
            n \in 1..MaxNdim}
    \cup {[kind |-> "Tuple",
           types |-> [i \in 1..n |-> IF i = 1 THEN "int32" ELSE "intp"]] :
            n \in {0} \cup 2..MaxNdim}

ArrayTypes == {[dtype |-> t, ndim |-> n, layout |-> "C"] :
                  t \in Dtypes, n \in 0..MaxNdim}

Layouts == {"C", "F"}
OtherAddrspaces == Addrspaces \ {SPIR_LOCAL_ADDRSPACE}

-----------------------------------------------------------------------------
(* Actions *)

NoCall == [op |-> "none", stub |-> "", sig |-> <<>>, args |-> <<>>,
           pre |-> State({}, <<>>, <<>>), exc |-> "none", msg |-> "",
           ret |-> NoValue]

Init ==
    /\ loaded = 0
    /\ registry = <<>>
    /\ namespace = [n \in FunctionNames |-> 0]
    /\ functions = {}
    /\ globals = <<>>
    /\ block = <<>>
    /\ status = "importing"
    /\ ncalls = 0
    /\ last = NoCall

\* executing the next def statement of the file
LoadDef ==
    /\ loaded < Len(Defs)
    /\ LET d == loaded + 1
           impl == [def |-> d, name |-> Defs[d].name,
                    signatures |-> Defs[d].implement]
       IN  /\ registry' = IF Defs[d].register
                          THEN Registry_register(registry, impl)
                          ELSE registry
           /\ namespace' = [namespace EXCEPT ![Defs[d].name] = d]
           /\ loaded' = d
           /\ status' = IF d = Len(Defs) THEN "idle" ELSE "importing"
    /\ UNCHANGED <<functions, globals, block, ncalls, last>>

\* the host starts compiling a kernel: a fresh LLVM module and builder
NewKernel ==
    /\ status \in {"idle", "lowering", "aborted"}
    /\ functions' = {}
    /\ globals' = <<>>
    /\ block' = <<>>
    /\ status' = "lowering"
    /\ ncalls' = 0
    /\ last' = NoCall
    /\ UNCHANGED <<loaded, registry, namespace>>

Current == State(functions, globals, block)

CanCall == status = "lowering" /\ ncalls < MaxCalls

\* the effect of one call into the file; an exception aborts the compilation
Finish(op, stub, sig, args, r) ==
    /\ functions' = r.st.functions
    /\ globals' = r.st.globals
    /\ block' = r.st.block
    /\ status' = IF r.exc = "none" THEN "lowering" ELSE "aborted"
    /\ ncalls' = ncalls + 1
    /\ last' = [op |-> op, stub |-> stub, sig |-> sig, args |-> args,
                pre |-> Current, exc |-> r.exc, msg |-> r.msg, ret |-> r.ret]
    /\ UNCHANGED <<loaded, registry, namespace>>

\* the host dispatches a call of func with argument types argtys to the
\* registered rule and runs it
Lower(op, func, argtys, sig, args) ==
    \E i \in Resolve(registry, func, argtys) :
        Finish(op, func, sig, args, Call(registry[i].def, Current, sig, args))

LowerWorkItem ==
    /\ CanCall
    /\ \E stub \in WorkItemStubs, dim \in DimArgs :
        Lower("workitem", stub, <<"uint32">>,
              [return_type |-> "intp", args |-> <<"uint32">>], <<dim>>)

LowerBarrier ==
    /\ CanCall
    /\ \E flags \in DimArgs :
        Lower("barrier", "barrier", <<"uint32">>,
              [return_type |-> "void", args |-> <<"uint32">>], <<flags>>)

LowerAtomicAdd ==
    /\ CanCall
    /\ \E aryty \in ArrayTypes, indty \in IndexTypes, valty \in Dtypes :
        Lower("atomic_add", "atomic.add", <<"Array", indty.kind, "Any">>,
              [return_type |-> valty, args |-> <<aryty, indty, valty>>],
              <<Arg(0), Arg(1), Arg(2)>>)

LowerSmemAlloc ==
    /\ CanCall
    /\ \E shape \in NonEmptyShapes, dtype \in Dtypes :
        Lower("smem_alloc", "hsail.smem.alloc", <<"UniTuple", "Any">>,
              [return_type |-> [dtype |-> dtype, ndim |-> Len(shape),
                                layout |-> "C"],
               args |-> <<"UniTuple", "Any">>],
              <<shape, dtype>>)

\* _generic_array called directly with another address space
CallGenericArray ==
    /\ CanCall
    /\ \E shape \in Shapes, dtype \in Dtypes, addrspace \in OtherAddrspaces :
        Finish("generic_array", "_generic_array", <<>>,
               <<shape, dtype, "_hsapy_smem", addrspace>>,
               _generic_array(Current, shape, dtype, "_hsapy_smem", addrspace))

\* _make_array called directly
CallMakeArray ==
    /\ CanCall
    /\ \E shape \in Shapes, dtype \in Dtypes, layout \in Layouts :
        Finish("make_array", "_make_array", <<>>,
               <<Arg(0), dtype, shape, layout>>,
               _make_array(Current, Arg(0), dtype, shape, layout))

Next ==
    \/ LoadDef
    \/ NewKernel
    \/ LowerWorkItem
    \/ LowerBarrier
    \/ LowerAtomicAdd
    \/ LowerSmemAlloc
    \/ CallGenericArray
    \/ CallMakeArray

Spec == Init /\ [][Next]_vars

-----------------------------------------------------------------------------
(* Properties *)

Imported == loaded = Len(Defs)

\* what the most recent call emitted and declared
NewInstrs == SubSeq(block, Len(last.pre.block) + 1, Len(block))
NewCalls == {i \in 1..Len(NewInstrs) : NewInstrs[i].op = "call"}
NewGlobals == SubSeq(globals, Len(last.pre.globals) + 1, Len(globals))
ModuleUnchanged == functions = last.pre.functions /\ globals = last.pre.globals
Declared(sym) == {f \in functions : f.name = sym}

\* the Itanium mangling of name(unsigned int)
MangledUInt(name) == "_Z" \o ToString(Len(name)) \o name \o "j"

\* C1: lowering a work-item intrinsic declares the function
\* _Z<len(name)><name>j of that same intrinsic with calling convention
\* SPIR_FUNC, leaves every other declaration alone, emits exactly one call
\* to it with the dimension argument, and returns the call's result cast
\* from uintp to intp.
C1_WorkItemLowering ==
    last.op = "workitem" =>
        LET sym == MangledUInt(last.stub)
        IN  /\ last.exc = "none"
            /\ (last.stub = "get_global_id" => sym = "_Z13get_global_idj")
            /\ Cardinality(Declared(sym)) = 1
            /\ \A f \in Declared(sym) : f.cc = CC_SPIR_FUNC
            /\ functions \ Declared(sym)
                 = {f \in last.pre.functions : f.name # sym}
            /\ globals = last.pre.globals
            /\ Cardinality(NewCalls) = 1
            /\ \A i \in NewCalls :
                /\ NewInstrs[i].callee = sym
                /\ NewInstrs[i].cc = CC_SPIR_FUNC
                /\ NewInstrs[i].args = last.args
                /\ last.ret = [op |-> "cast", val |-> NewInstrs[i],
                               from |-> "uintp", to |-> "intp"]

C1_Witness ==
    /\ last.op = "workitem"
    /\ last.stub = "get_local_size"
    /\ last.exc = "none"
    /\ last.args = <<Arg(1)>>

\* C2: atomic.add whose array dtype differs from the value type raises
\* TypeError (the dtype error, whatever the index form and the index
\* count), declares no function and emits no call.
C2_AtomicDtypeMismatch ==
    (last.op = "atomic_add" /\ last.sig.args[1].dtype # last.sig.args[3]) =>
        /\ last.exc = "TypeError"
        /\ last.msg = "expecting dtype but got valty"
        /\ last.ret = NoValue
        /\ ModuleUnchanged
        /\ NewCalls = {}

C2_Witness ==
    /\ last.op = "atomic_add"
    /\ last.sig.args[1].dtype # last.sig.args[3]
    /\ last.sig.args[2].kind = "Tuple"
    /\ last.sig.args[1].ndim # IndexCount(last.sig.args[2])
    /\ last.exc = "TypeError"

\* C3: atomic.add with matching dtype raises TypeError when the array's
\* ndim differs from the number of index components (one for a single intp,
\* the length for a tuple); it succeeds exactly when dtype and ndim both
\* match, and then declares the atomic builtin and emits one call to it
\* with the element pointer and the value.
C3_AtomicIndexCount ==
    last.op = "atomic_add" =>
        LET aryty == last.sig.args[1]
            indty == last.sig.args[2]
            valty == last.sig.args[3]
            n == IF indty.kind = "intp" THEN 1 ELSE Len(indty.types)
            sym == _atomic_mangle("add", valty, SPIR_GENERIC_ADDRSPACE)
        IN  /\ (aryty.dtype = valty /\ aryty.ndim # n) =>
                /\ last.exc = "TypeError"
                /\ last.msg = "indexing n-D array with m-D index"
                /\ ModuleUnchanged
                /\ NewCalls = {}
            /\ last.exc = "none" <=> (aryty.dtype = valty /\ aryty.ndim = n)
            /\ last.exc = "none" =>
                /\ Cardinality(Declared(sym)) = 1
                /\ Cardinality(NewCalls) = 1
                /\ \A i \in NewCalls :
                    /\ NewInstrs[i].callee = sym
                    /\ Len(NewInstrs[i].args) = 2
                    /\ NewInstrs[i].args[1].op = "get_item_pointer"
                    /\ Len(NewInstrs[i].args[1].indices) = aryty.ndim
                    /\ NewInstrs[i].args[2] = last.args[3]
                    /\ last.ret = NewInstrs[i]

C3_Witness ==
    /\ last.op = "atomic_add"
    /\ last.sig.args[2].kind = "intp"
    /\ last.sig.args[1].dtype = last.sig.args[3]
    /\ last.sig.args[1].ndim = 2
    /\ last.exc = "TypeError"

\* C4: a shared-memory allocation whose element count (the product of the
\* shape's dimensions) is <= 0 raises ValueError and returns no array.
C4_SmemNonPositive ==
    (last.op = "smem_alloc" /\ reduce_mul(last.args[1]) <= 0) =>
        /\ last.exc = "ValueError"
        /\ last.ret = NoValue

C4_Witness ==
    /\ last.op = "smem_alloc"
    /\ last.args[1] = <<0, 3>>
    /\ last.exc = "ValueError"

\* C5: a shared-memory allocation with a positive element count raises
\* TypeError when the dtype is outside types.number_domain and returns an
\* array for every dtype inside it; no array is returned for an
\* unsupported dtype.
C5_SmemDtype ==
    last.op = "smem_alloc" =>
        /\ reduce_mul(last.args[1]) > 0 =>
            /\ last.args[2] \notin number_domain =>
                (last.exc = "TypeError" /\ last.ret = NoValue)
            /\ last.args[2] \in number_domain =>
                (last.exc = "none" /\ last.ret.op = "array"
                    /\ last.ret.aryty.dtype = last.args[2])
        /\ last.ret.op = "array" => last.args[2] \in number_domain

C5_Witness ==
    /\ last.op = "smem_alloc"
    /\ reduce_mul(last.args[1]) > 0
    /\ last.args[2] = "boolean"
    /\ last.exc = "TypeError"

\* C6 as stated: _generic_array with an address space other than SPIR local
\* raises NotImplementedError for every shape and dtype, adding no global
\* variable and emitting no instruction.
C6_Original ==
    last.op = "generic_array" =>
        /\ last.exc = "NotImplementedError"
        /\ ModuleUnchanged
        /\ block = last.pre.block

\* C6 amended: _generic_array with an address space other than SPIR local
\* raises NotImplementedError for every non-empty shape and every dtype
\* (an empty shape fails earlier, in reduce, with TypeError); in both cases
\* no global variable is added and no instruction is emitted.
C6_OtherAddrspace ==
    last.op = "generic_array" =>
        /\ last.args[1] # <<>> => last.exc = "NotImplementedError"
        /\ last.args[1] = <<>> => last.exc = "TypeError"
        /\ last.ret = NoValue
        /\ ModuleUnchanged
        /\ block = last.pre.block

C6_Witness ==
    /\ last.op = "generic_array"
    /\ last.args[1] = <<2, 3>>
    /\ last.args[4] = SPIR_GLOBAL_ADDRSPACE
    /\ last.exc = "NotImplementedError"

ExpectedRules ==
    {Rule(f, <<"uint32">>) : f \in WorkItemStubs \cup {"barrier"}}
    \cup {Rule("atomic.add", <<"Array", k, "Any">>) :
            k \in {"intp", "UniTuple", "Tuple"}}
    \cup {Rule("hsail.smem.alloc", <<"UniTuple", "Any">>)}

\* C7: once the file is imported the registry holds exactly one rule per
\* (intrinsic, argument types) pair of the ten pairs listed; the rule for
\* get_local_size calls the get_local_size builtin and the rule for barrier
\* calls the barrier builtin, although the second def rebinds the name
\* get_local_size_impl.
C7_Registry ==
    Imported =>
        /\ RegisteredRules(registry) = ExpectedRules
        /\ \A r \in ExpectedRules :
              Cardinality(Resolve(registry, r.func, r.args)) = 1
        /\ namespace["get_local_size_impl"] = 6
        /\ (last.op = "workitem" /\ last.stub = "get_local_size") =>
              \A i \in NewCalls : NewInstrs[i].callee = "_Z14get_local_sizej"
        /\ last.op = "barrier" =>
              /\ Cardinality(NewCalls) = 1
              /\ \A i \in NewCalls : /\ NewInstrs[i].callee = "_Z7barrierj"
                                     /\ last.ret = NewInstrs[i]

C7_Witness ==
    /\ Imported
    /\ Len(registry) = 8
    /\ last.op = "barrier"
    /\ last.exc = "none"

\* C8: for a non-empty shape (d0..d(n-1)) _make_array returns an array with
\* that shape and n strides in C order: strides[n-1] = itemsize and
\* strides[i] = d(i+1) * strides[i+1]; d0 enters no stride; the array type
\* has layout 'C' whatever the layout argument.
C8_Strides ==
    (last.op \in {"make_array", "smem_alloc"} /\ last.ret.op = "array") =>
        LET shape == IF last.op = "make_array" THEN last.args[3]
                     ELSE last.args[1]
            dtype == last.args[2]
            n == Len(shape)
            a == last.ret
            itemsize == CASE dtype = "int32" -> 4
                          [] dtype = "float64" -> 8
                          [] dtype = "boolean" -> 1
        IN  n > 0 =>
            /\ a.shape = shape
            /\ Len(a.strides) = n
            /\ a.strides[n] = itemsize
            /\ \A i \in 1..(n - 1) : a.strides[i] = shape[i + 1] * a.strides[i + 1]
            /\ a.aryty = [dtype |-> dtype, ndim |-> n, layout |-> "C"]

C8_Witness ==
    /\ last.op = "make_array"
    /\ last.args[3] = <<0, 3>>
    /\ last.args[4] = "F"
    /\ last.ret.op = "array"
    /\ last.ret.strides = <<24, 8>>

\* C9: a shared-memory allocation that ends in ValueError (element count
\* <= 0) or TypeError (unsupported dtype) leaves the module unchanged: it
\* has added no global variable named after '_hsapy_smem'.
C9_FailedSmemLeavesModule ==
    (last.op = "smem_alloc" /\ last.exc \in {"ValueError", "TypeError"}) =>
        /\ globals = last.pre.globals
        /\ \A i \in 1..Len(NewGlobals) : NewGlobals[i].base # "_hsapy_smem"

\* C10: every array a shared-memory allocation returns has every dimension
\* of its shape strictly positive.
C10_ReturnedShapePositive ==
    (last.op = "smem_alloc" /\ last.exc = "none") =>
        \A i \in 1..Len(last.ret.shape) : last.ret.shape[i] > 0

=============================================================================
